---- MODULE Spec2Model ----
(***************************************************************************)
(* A model of package jiffy (JSON Expressions): the Expression node, its   *)
(* Validate method, MarshalJSON (encode) and UnmarshalJSON / fromParts     *)
(* (decode).  Byte strings are modelled by the JSON document they spell,   *)
(* Go interface{} values by tagged records, errors by their messages.      *)
(***************************************************************************)
EXTENDS Integers, Sequences, FiniteSets, TLC

VARIABLES expression, op, data, before, err, bytes, trace

vars == <<expression, op, data, before, err, bytes, trace>>

(***************************************************************************)
(* Bounds of the enumerated inputs.                                        *)
(***************************************************************************)
\* Largest JSON document decoded, counted in JSON values (arrays and scalars).
MaxDocSize == 6
\* Largest caller-built tree encoded, counted in nodes and terminal arguments.
MaxTreeSize == 4

(***************************************************************************)
(* JSON documents: what the bytes given to or produced by the package      *)
(* spell.  Malformed stands for bytes that are not syntactically JSON.     *)
(***************************************************************************)
JStr(s) == [j |-> "string", s |-> s]
JNum(n) == [j |-> "number", n |-> n]
JBool(b) == [j |-> "bool", b |-> b]
JNull == [j |-> "null"]
JObj(m) == [j |-> "object", m |-> m]
JArr(a) == [j |-> "array", a |-> a]
Malformed == [j |-> "malformed"]
\* MarshalJSON's nil []byte.
NilBytes == [j |-> "nil"]

(***************************************************************************)
(* Go values held in interface{}: string, float64, bool, nil,              *)
(* map[string]interface{} (one key, "foo"), []interface{}, a channel (a    *)
(* value encoding/json cannot marshal) and *Expression.                    *)
(***************************************************************************)
GoString(s) == [k |-> "string", s |-> s]
GoFloat(n) == [k |-> "float64", n |-> n]
GoBool(b) == [k |-> "bool", b |-> b]
GoNil == [k |-> "nil"]
GoMap(m) == [k |-> "map", m |-> m]
GoSlice(a) == [k |-> "slice", a |-> a]
GoChan == [k |-> "chan"]

\* The error value nil, and the Validator value nil.
NilErr == "nil"
NilValidator == "nil"

\* type Expression struct { Operator; Arguments; Validator }
Expression(operator, arguments, validator) ==
    [k |-> "expr", Operator |-> operator, Arguments |-> arguments,
     Validator |-> validator]

(***************************************************************************)
(* Validator functions.  "arity" is the validator of TestCustomValidator,  *)
(* "accept" is a validator that always returns nil.                        *)
(***************************************************************************)
Validators == {NilValidator, "accept", "arity"}

ArityValidator(operator, arguments) ==
    IF operator = "void"
    THEN IF Len(arguments) > 0 THEN "expected no arguments for void" ELSE NilErr
    ELSE IF Len(arguments) = 0 THEN "expected some arguments" ELSE NilErr

\* expression.Validator(expression.Operator, expression.Arguments)
CallValidator(validator, operator, arguments) ==
    CASE validator = "accept" -> NilErr
      [] validator = "arity" -> ArityValidator(operator, arguments)

\* Validate with the validator, when set, consulted before the operator.
ValidateValidatorFirst(e) ==
    IF e.Validator # NilValidator
    THEN [err |-> CallValidator(e.Validator, e.Operator, e.Arguments),
          calls |-> <<[validator |-> e.Validator, operator |-> e.Operator,
                       arguments |-> e.Arguments]>>]
    ELSE IF Len(e.Operator) = 0
         THEN [err |-> "zero length operator name", calls |-> <<>>]
         ELSE [err |-> NilErr, calls |-> <<>>]

\* Validate: the error returned, and the validator calls it made.
Validate(e) ==
    IF Len(e.Operator) = 0
    THEN [err |-> "zero length operator name", calls |-> <<>>]
    ELSE IF e.Validator # NilValidator
         THEN [err |-> CallValidator(e.Validator, e.Operator, e.Arguments),
               calls |-> <<[validator |-> e.Validator, operator |-> e.Operator,
                            arguments |-> e.Arguments]>>]
         ELSE [err |-> NilErr, calls |-> <<>>]

\* The record of one Validate call on the node at `path` (the zero-based
\* argument indices from the root down to the node).
ValidateEvent(path, e) ==
    LET r == Validate(e)
    IN  [ev |-> "Validate", path |-> path, err |-> r.err, calls |-> r.calls]

\* The events of a nested call, seen from the parent whose argument i it is.
At(i, events) ==
    [n \in DOMAIN events |-> [events[n] EXCEPT !.path = <<i>> \o @]]

(***************************************************************************)
(* Decoding: UnmarshalJSON, getOperator, fromParts.                        *)
(***************************************************************************)
\* json.Unmarshal into an interface{}: the Go value a JSON document becomes.
RECURSIVE jsonUnmarshalValue(_)
jsonUnmarshalValue(d) ==
    CASE d.j = "string" -> GoString(d.s)
      [] d.j = "number" -> GoFloat(d.n)
      [] d.j = "bool" -> GoBool(d.b)
      [] d.j = "null" -> GoNil
      [] d.j = "object" -> GoMap(jsonUnmarshalValue(d.m))
      [] d.j = "array" -> GoSlice([n \in DOMAIN d.a |-> jsonUnmarshalValue(d.a[n])])

\* json.Unmarshal(data, &parts) with its error not looked at: parts stays
\* nil unless the bytes are an array.
jsonUnmarshalPartsUnchecked(d) ==
    [err |-> NilErr,
     parts |-> IF d.j = "array" THEN jsonUnmarshalValue(d).a ELSE <<>>]

\* json.Unmarshal(data, &parts) with parts a nil []interface{}: a syntax
\* error for malformed bytes, the elements for an array, parts left nil
\* (and no error) for null, an UnmarshalTypeError for any other value.
jsonUnmarshalParts(d) ==
    CASE d.j = "malformed" ->
           [err |-> "invalid character 'x' looking for beginning of value",
            parts |-> <<>>]
      [] d.j = "array" -> [err |-> NilErr, parts |-> jsonUnmarshalValue(d).a]
      [] d.j = "null" -> [err |-> NilErr, parts |-> <<>>]
      [] OTHER ->
           [err |-> "json: cannot unmarshal " \o d.j
                      \o " into Go value of type []interface {}",
            parts |-> <<>>]

\* fmt's %v of a value decoded from JSON.
RECURSIVE GoFormat(_)
RECURSIVE GoFormatList(_, _)
GoFormatList(s, n) ==
    IF n > Len(s) THEN ""
    ELSE (IF n > 1 THEN " " ELSE "") \o GoFormat(s[n]) \o GoFormatList(s, n + 1)
GoFormat(x) ==
    CASE x.k = "string" -> x.s
      [] x.k = "float64" -> ToString(x.n)
      [] x.k = "bool" -> IF x.b THEN "true" ELSE "false"
      [] x.k = "nil" -> "<nil>"
      [] x.k = "map" -> "map[foo:" \o GoFormat(x.m) \o "]"
      [] x.k = "slice" -> "[" \o GoFormatList(x.a, 1) \o "]"

\* getOperator with the first part formatted into the operator, not
\* asserted to be a string.
getOperatorFormatted(parts) ==
    IF Len(parts) = 0
    THEN [operator |-> "", err |-> "expression must have an operator"]
    ELSE [operator |-> GoFormat(parts[1]), err |-> NilErr]

getOperator(parts) ==
    IF Len(parts) = 0
    THEN [operator |-> "", err |-> "expression must have an operator"]
    ELSE LET opInterface == parts[1]
         IN  IF opInterface.k # "string"
             THEN [operator |-> "",
                   err |-> "expected a string operator, got "
                             \o GoFormat(opInterface)]
             ELSE [operator |-> opInterface.s, err |-> NilErr]

\* The arguments taken to be all the parts, the operator among them.
getArgumentsAll(parts) == parts

\* arguments := parts[1:]
getArguments(parts) == Tail(parts)

\* The test passing only the arrays that have elements.
IsNestedPartsNonEmpty(arg) == arg.k = "slice" /\ Len(arg.a) > 0

\* nestedParts, ok := arg.([]interface{}): ok
IsNestedParts(arg) == arg.k = "slice"

\* The wrap with the index counted among the parts, the operator included.
ArgErrorPartIndex(i, nestedErr) ==
    "arg " \o ToString(i + 1) \o " error: " \o nestedErr

\* fmt.Errorf("arg %d error: %s", i, nestedErr)
ArgError(i, nestedErr) == "arg " \o ToString(i) \o " error: " \o nestedErr

\* The nested node made without the validator: &Expression{}
NestedExpressionZero(e) == Expression("", <<>>, NilValidator)

\* nestedExpression := &Expression{Validator: expression.Validator}
NestedExpression(e) == Expression("", <<>>, e.Validator)

\* fromParts returns the error, the target node as the call leaves it, and
\* the events of the call: "fromParts" when a node's decoding starts,
\* "Validate" when its Validate runs.  fromPartsArguments is the loop over
\* the arguments, from the zero-based index i on.
RECURSIVE fromParts(_, _)
RECURSIVE fromPartsArguments(_, _, _)
\* The loop with a failing nested call remembered instead of returned: the
\* later arguments are still decoded.
fromPartsArgumentsNoAbort(arguments, i, e) ==
    IF i >= Len(arguments)
    THEN [err |-> NilErr, arguments |-> arguments, trace |-> <<>>]
    ELSE LET arg == arguments[i + 1]
         IN  IF IsNestedParts(arg)
             THEN LET nested == fromParts(arg.a, NestedExpression(e))
                      rest == fromPartsArguments(
                                [arguments EXCEPT ![i + 1] = nested.expression],
                                i + 1, e)
                  IN  [rest EXCEPT !.trace = At(i, nested.trace) \o @,
                                   !.err = IF nested.err # NilErr
                                           THEN ArgError(i, nested.err)
                                           ELSE @]
             ELSE fromPartsArguments(arguments, i + 1, e)

fromPartsArguments(arguments, i, e) ==
    IF i >= Len(arguments)
    THEN [err |-> NilErr, arguments |-> arguments, trace |-> <<>>]
    ELSE LET arg == arguments[i + 1]
         IN  IF IsNestedParts(arg)
             THEN LET nested == fromParts(arg.a, NestedExpression(e))
                  IN  IF nested.err # NilErr
                      THEN [err |-> ArgError(i, nested.err),
                            arguments |-> arguments,
                            trace |-> At(i, nested.trace)]
                      ELSE LET rest == fromPartsArguments(
                                         [arguments EXCEPT ![i + 1] = nested.expression],
                                         i + 1, e)
                           IN  [rest EXCEPT !.trace = At(i, nested.trace) \o @]
             ELSE fromPartsArguments(arguments, i + 1, e)
\* fromParts with the operator assigned as soon as it is read, before the
\* arguments are resolved.
fromPartsAssignFirst(parts, e) ==
    LET entered == [ev |-> "fromParts", path |-> <<>>]
        got == getOperator(parts)
    IN  IF got.err # NilErr
        THEN [err |-> got.err, expression |-> e, trace |-> <<entered>>]
        ELSE LET named == [e EXCEPT !.Operator = got.operator]
                 loop == fromPartsArguments(getArguments(parts), 0, e)
             IN  IF loop.err # NilErr
                 THEN [err |-> loop.err, expression |-> named,
                       trace |-> <<entered>> \o loop.trace]
                 ELSE LET assigned == [named EXCEPT !.Arguments = loop.arguments]
                          validated == ValidateEvent(<<>>, assigned)
                      IN  [err |-> validated.err,
                           expression |-> assigned,
                           trace |-> <<entered>> \o loop.trace
                                       \o <<validated>>]

fromParts(parts, e) ==
    LET entered == [ev |-> "fromParts", path |-> <<>>]
        got == getOperator(parts)
    IN  IF got.err # NilErr
        THEN [err |-> got.err, expression |-> e, trace |-> <<entered>>]
        ELSE LET loop == fromPartsArguments(getArguments(parts), 0, e)
             IN  IF loop.err # NilErr
                 THEN [err |-> loop.err, expression |-> e,
                       trace |-> <<entered>> \o loop.trace]
                 ELSE LET assigned == [e EXCEPT !.Operator = got.operator,
                                                !.Arguments = loop.arguments]
                          validated == ValidateEvent(<<>>, assigned)
                      IN  [err |-> validated.err,
                           expression |-> assigned,
                           trace |-> <<entered>> \o loop.trace
                                       \o <<validated>>]

UnmarshalJSON(d, e) ==
    LET got == jsonUnmarshalParts(d)
    IN  IF got.err # NilErr
        THEN [err |-> got.err, expression |-> e, trace |-> <<>>]
        ELSE fromParts(got.parts, e)

(***************************************************************************)
(* Encoding: MarshalJSON, and encoding/json's Marshal of one argument.     *)
(***************************************************************************)
\* The failure returned with the buffer written so far.
MarshalArgumentFailedPartial(i, buffer, argErr) ==
    [bytes |-> JArr(buffer),
     err |-> "failed to marshal argument " \o ToString(i) \o ": " \o argErr]

\* return nil, fmt.Errorf("failed to marshal argument %d: %s", i, argErr)
\* The buffer written so far is dropped.
MarshalArgumentFailed(i, buffer, argErr) ==
    [bytes |-> NilBytes,
     err |-> "failed to marshal argument " \o ToString(i) \o ": " \o argErr]

\* json.Marshal's error for a Marshaler whose MarshalJSON failed.
MarshalerError(cause) ==
    "json: error calling MarshalJSON for type *jiffy.Expression: " \o cause

\* The result of MarshalJSON: the bytes (nil on failure), the error, and the
\* events of the call: "Marshal" when json.Marshal is called on an
\* argument, "Validate" when a node's Validate runs.  jsonMarshal is
\* json.Marshal(argument); MarshalArguments is the loop over the arguments
\* from the zero-based index i on, buffer holding what is written so far.
RECURSIVE MarshalJSON(_)
RECURSIVE jsonMarshal(_)
RECURSIVE jsonMarshalElements(_, _, _)
RECURSIVE MarshalArguments(_, _, _)
jsonMarshalElements(s, n, out) ==
    IF n > Len(s) THEN [bytes |-> JArr(out), err |-> NilErr, trace |-> <<>>]
    ELSE LET r == jsonMarshal(s[n])
         IN  IF r.err # NilErr THEN [r EXCEPT !.bytes = NilBytes]
             ELSE LET rest == jsonMarshalElements(s, n + 1, Append(out, r.bytes))
                  IN  [rest EXCEPT !.trace = r.trace \o @]
jsonMarshal(x) ==
    CASE x.k = "string" -> [bytes |-> JStr(x.s), err |-> NilErr, trace |-> <<>>]
      [] x.k = "float64" -> [bytes |-> JNum(x.n), err |-> NilErr, trace |-> <<>>]
      [] x.k = "bool" -> [bytes |-> JBool(x.b), err |-> NilErr, trace |-> <<>>]
      [] x.k = "nil" -> [bytes |-> JNull, err |-> NilErr, trace |-> <<>>]
      [] x.k = "chan" ->
           [bytes |-> NilBytes, err |-> "json: unsupported type: chan int",
            trace |-> <<>>]
      [] x.k = "map" ->
           LET r == jsonMarshal(x.m)
           IN  IF r.err # NilErr THEN [r EXCEPT !.bytes = NilBytes]
               ELSE [r EXCEPT !.bytes = JObj(r.bytes)]
      [] x.k = "slice" -> jsonMarshalElements(x.a, 1, <<>>)
      [] x.k = "expr" ->
           LET r == MarshalJSON(x)
           IN  IF r.err # NilErr
               THEN [bytes |-> NilBytes, err |-> MarshalerError(r.err),
                     trace |-> r.trace]
               ELSE r
MarshalArguments(arguments, i, buffer) ==
    IF i >= Len(arguments)
    THEN [bytes |-> JArr(buffer), err |-> NilErr, trace |-> <<>>]
    ELSE LET called == [ev |-> "Marshal", path |-> <<i>>]
             arg == jsonMarshal(arguments[i + 1])
         IN  IF arg.err # NilErr
             THEN [bytes |-> MarshalArgumentFailed(i, buffer, arg.err).bytes,
                   err |-> MarshalArgumentFailed(i, buffer, arg.err).err,
                   trace |-> <<called>> \o At(i, arg.trace)]
             ELSE LET rest == MarshalArguments(arguments, i + 1,
                                               Append(buffer, arg.bytes))
                  IN  [rest EXCEPT !.trace = <<called>> \o At(i, arg.trace) \o @]
\* MarshalJSON with the node validated after its arguments are encoded.
MarshalJSONValidateLast(e) ==
    LET validated == ValidateEvent(<<>>, e)
        loop == MarshalArguments(e.Arguments, 0, <<JStr(e.Operator)>>)
    IN  IF loop.err # NilErr
        THEN loop
        ELSE IF validated.err # NilErr
             THEN [bytes |-> NilBytes, err |-> validated.err,
                   trace |-> loop.trace \o <<validated>>]
             ELSE [loop EXCEPT !.trace = @ \o <<validated>>]

MarshalJSON(e) ==
    LET validated == ValidateEvent(<<>>, e)
    IN  IF validated.err # NilErr
        THEN [bytes |-> NilBytes, err |-> validated.err,
              trace |-> <<validated>>]
        ELSE LET loop == MarshalArguments(e.Arguments, 0, <<JStr(e.Operator)>>)
             IN  [loop EXCEPT !.trace = <<validated>> \o @]

(***************************************************************************)
(* The inputs enumerated.                                                  *)
(***************************************************************************)
\* The operators of the sized documents and trees.
Operators == {"", "or"}

\* The scalars the sized documents are built from, and one scalar of every
\* JSON kind.
JAtoms == {JStr(o) : o \in Operators} \cup {JNum(42)}
JKinds ==
    JAtoms \cup {JStr("void"), JBool(TRUE), JNull, JObj(JNum(42)),
                 JObj(JArr(<<>>))}

\* Cons(D, S): the sequences of a first element of D and a rest of S.
Cons(D, S) == {<<d>> \o s : d \in D, s \in S}

\* Docs<n>: the JSON documents of exactly n values; DocSeqs<n>: the
\* sequences of documents of n values in all.  A document given to
\* UnmarshalJSON is an array of a first element and a rest, MaxDocSize
\* values in all at most, so the larger sizes are left empty.
DocSeqs0 == {<<>>}
Docs1 == JAtoms \cup {JArr(<<>>)}
DocSeqs1 ==
    IF MaxDocSize > 2 THEN
        Cons(Docs1, DocSeqs0)
    ELSE {}
Docs2 == IF MaxDocSize > 2 THEN {JArr(s) : s \in DocSeqs1} ELSE {}
DocSeqs2 ==
    IF MaxDocSize > 3 THEN
        Cons(Docs1, DocSeqs1) \cup
        Cons(Docs2, DocSeqs0)
    ELSE {}
Docs3 == IF MaxDocSize > 3 THEN {JArr(s) : s \in DocSeqs2} ELSE {}
DocSeqs3 ==
    IF MaxDocSize > 4 THEN
        Cons(Docs1, DocSeqs2) \cup
        Cons(Docs2, DocSeqs1) \cup
        Cons(Docs3, DocSeqs0)
    ELSE {}
Docs4 == IF MaxDocSize > 4 THEN {JArr(s) : s \in DocSeqs3} ELSE {}
DocSeqs4 ==
    IF MaxDocSize > 5 THEN
        Cons(Docs1, DocSeqs3) \cup
        Cons(Docs2, DocSeqs2) \cup
        Cons(Docs3, DocSeqs1) \cup
        Cons(Docs4, DocSeqs0)
    ELSE {}
Docs5 == IF MaxDocSize > 5 THEN {JArr(s) : s \in DocSeqs4} ELSE {}
DocSeqs5 ==
    IF MaxDocSize > 6 THEN
        Cons(Docs1, DocSeqs4) \cup
        Cons(Docs2, DocSeqs3) \cup
        Cons(Docs3, DocSeqs2) \cup
        Cons(Docs4, DocSeqs1) \cup
        Cons(Docs5, DocSeqs0)
    ELSE {}
Docs6 == IF MaxDocSize > 6 THEN {JArr(s) : s \in DocSeqs5} ELSE {}
DocSeqs6 ==
    IF MaxDocSize > 7 THEN
        Cons(Docs1, DocSeqs5) \cup
        Cons(Docs2, DocSeqs4) \cup
        Cons(Docs3, DocSeqs3) \cup
        Cons(Docs4, DocSeqs2) \cup
        Cons(Docs5, DocSeqs1) \cup
        Cons(Docs6, DocSeqs0)
    ELSE {}
DocsOfSize == <<Docs1, Docs2, Docs3, Docs4, Docs5, Docs6>>
DocSeqsOfSize ==
    <<DocSeqs0, DocSeqs1, DocSeqs2, DocSeqs3, DocSeqs4, DocSeqs5, DocSeqs6>>

\* Every pairing of kinds as operator and argument, and every kind beside a
\* nested expression.
KindDocs ==
    LET kinds == JKinds \cup {JArr(<<>>), JArr(<<JStr("void")>>)}
    IN  {JArr(<<h, t>>) : h \in kinds, t \in kinds}
          \cup {JArr(<<JStr("or"), t, JArr(<<JStr("void")>>)>>) : t \in kinds}

\* The JSON of the cases of TestUnmarshalExpression and
\* TestCustomValidatorUnmarshal.
TestDocs ==
    LET void == JArr(<<JStr("void")>>)
        oops == JArr(<<JStr("oops")>>)
        add == JArr(<<JStr("add"), JNum(2), JNum(2)>>)
    IN  {void, oops, add,
         JArr(<<JStr("add"), JNum(42), JNum(100)>>),
         JArr(<<JStr("void"), JStr("oops")>>),
         JArr(<<JStr("or"), void, add>>),
         JArr(<<JStr("or"), void, oops>>),
         JArr(<<JStr("or"), JArr(<<JStr("or"), void, add>>)>>),
         JArr(<<JStr("or"), JArr(<<JStr("or"), void, oops>>)>>),
         JArr(<<JStr(">"), JArr(<<JStr("get"), JStr("count")>>), JNum(42)>>),
         JArr(<<JStr("any"),
                JArr(<<JStr(">"), JStr("property"), JNum(42)>>),
                JArr(<<JStr("<="), JStr("property"), JNum(100)>>)>>),
         JArr(<<JStr("bool"), JBool(TRUE), JBool(FALSE)>>),
         JArr(<<JStr("complex"), JObj(JNum(42))>>)}

\* The bytes given to UnmarshalJSON, beside the sized arrays.
Inputs == {Malformed, JArr(<<>>)} \cup JKinds \cup KindDocs \cup TestDocs

\* The terminal arguments the sized trees are built from, and one terminal
\* of every Go kind.
GoAtoms == {GoFloat(42)}
GoKinds ==
    GoAtoms \cup {GoString("s"), GoBool(TRUE), GoNil, GoMap(GoFloat(42)),
                  GoSlice(<<GoFloat(42)>>), GoChan}
\* The validators of the nodes of the sized trees.
TreeValidators == {NilValidator, "arity"}

\* Values<n>: the argument values of exactly n nodes and terminals;
\* Arguments<n>: the argument lists of n in all.  A tree is a node of a
\* first argument and a rest, MaxTreeSize in all at most, so the larger
\* sizes are left empty.
Nodes(A) ==
    {Expression(o, a, v) : o \in Operators, a \in A, v \in TreeValidators}
Arguments0 == {<<>>}
Values1 == GoAtoms \cup Nodes({<<>>})
Arguments1 ==
    IF MaxTreeSize > 2 THEN
        Cons(Values1, Arguments0)
    ELSE {}
Values2 == IF MaxTreeSize > 2 THEN Nodes(Arguments1) ELSE {}
Arguments2 ==
    IF MaxTreeSize > 3 THEN
        Cons(Values1, Arguments1) \cup
        Cons(Values2, Arguments0)
    ELSE {}
Values3 == IF MaxTreeSize > 3 THEN Nodes(Arguments2) ELSE {}
Arguments3 ==
    IF MaxTreeSize > 4 THEN
        Cons(Values1, Arguments2) \cup
        Cons(Values2, Arguments1) \cup
        Cons(Values3, Arguments0)
    ELSE {}
Values4 == IF MaxTreeSize > 4 THEN Nodes(Arguments3) ELSE {}
Arguments4 ==
    IF MaxTreeSize > 5 THEN
        Cons(Values1, Arguments3) \cup
        Cons(Values2, Arguments2) \cup
        Cons(Values3, Arguments1) \cup
        Cons(Values4, Arguments0)
    ELSE {}
Values5 == IF MaxTreeSize > 5 THEN Nodes(Arguments4) ELSE {}
Arguments5 ==
    IF MaxTreeSize > 6 THEN
        Cons(Values1, Arguments4) \cup
        Cons(Values2, Arguments3) \cup
        Cons(Values3, Arguments2) \cup
        Cons(Values4, Arguments1) \cup
        Cons(Values5, Arguments0)
    ELSE {}
ValuesOfSize == <<Values1, Values2, Values3, Values4, Values5>>
ArgumentsOfSize ==
    <<Arguments0, Arguments1, Arguments2, Arguments3, Arguments4, Arguments5>>

\* Every kind of terminal as an argument of the root and of a nested node.
KindTrees ==
    {Expression("or", <<t>>, v) : t \in GoKinds, v \in Validators}
      \cup {Expression("or", <<GoFloat(42), Expression("or", <<t>>, v)>>, v) :
              t \in GoKinds, v \in Validators}

\* The expressions of the cases of TestMarshalExpression.
TestTrees ==
    LET node(o, a) == Expression(o, a, NilValidator)
    IN  {node(">", <<node("get", <<GoString("count")>>), GoFloat(42)>>),
         node("in", <<GoString("property"), GoFloat(42), GoFloat(10)>>),
         node("any", <<node(">", <<GoString("property"), GoFloat(42)>>),
                       node("<=", <<GoString("property"), GoFloat(100)>>)>>),
         node("", <<GoString("oops")>>),
         node("any", <<node(">", <<GoString("property"), GoFloat(42)>>),
                       node("", <<GoString("oops")>>)>>),
         node("bool", <<GoBool(TRUE), GoBool(FALSE)>>),
         node("void", <<>>),
         node("complex", <<GoMap(GoFloat(42))>>),
         Expression("pass", <<GoFloat(42)>>, "accept"),
         Expression("void", <<GoFloat(42)>>, "arity"),
         Expression("void", <<>>, "arity")}

\* The nested expression of TestMarshalExpression's "nested expression
\* missing operator", one level further down and with siblings: a root of a
\* child and a later argument, the child of two arguments, every node with
\* an operator and a validator of its own.
WalkTrees ==
    {Expression(o, <<Expression("or", <<g, h>>, v), s>>, w) :
       g \in Values1, h \in Values1, s \in Values1,
       o \in Operators, v \in TreeValidators, w \in TreeValidators}

\* The trees a caller builds in memory, beside the sized trees.
Trees == Nodes({<<>>}) \cup KindTrees \cup TestTrees \cup WalkTrees

\* The nodes decoded into: a fresh &Expression{Validator: v}, and one that
\* already holds an expression.
DecodeTargets ==
    {Expression("", <<>>, v) : v \in Validators}
      \cup {Expression("or", <<GoFloat(42)>>, v) : v \in Validators}

(***************************************************************************)
(* The state machine: a caller holds a node, built in memory, and makes    *)
(* one call on it.  op names the call made, before the node as it was      *)
(* before the call, data the bytes given to UnmarshalJSON, err and bytes   *)
(* what the call returned, trace the events of the call.                   *)
(***************************************************************************)
Init ==
    /\ \/ expression \in Trees \cup DecodeTargets
       \/ \E m \in 1..(MaxTreeSize - 1), n \in 0..(MaxTreeSize - 2) :
            /\ m + n < MaxTreeSize
            /\ \E o \in Operators, v \in TreeValidators,
                  x \in ValuesOfSize[m], a \in ArgumentsOfSize[n + 1] :
                 expression = Expression(o, <<x>> \o a, v)
    /\ op = "new"
    /\ data = NilBytes
    /\ before = expression
    /\ err = NilErr
    /\ bytes = NilBytes
    /\ trace = <<>>

CallValidate ==
    /\ op = "new"
    /\ op' = "Validate"
    /\ err' = Validate(expression).err
    /\ trace' = <<ValidateEvent(<<>>, expression)>>
    /\ before' = expression
    /\ UNCHANGED <<expression, data, bytes>>

CallMarshalJSON ==
    /\ op = "new"
    /\ op' = "MarshalJSON"
    /\ LET r == MarshalJSON(expression)
       IN  /\ err' = r.err
           /\ bytes' = r.bytes
           /\ trace' = r.trace
    /\ before' = expression
    /\ UNCHANGED <<expression, data>>

\* expression.UnmarshalJSON(d)
Decode(d) ==
    LET r == UnmarshalJSON(d, expression)
    IN  /\ data' = d
        /\ expression' = r.expression
        /\ err' = r.err
        /\ trace' = r.trace
        /\ op' = "UnmarshalJSON"
        /\ before' = expression
        /\ UNCHANGED bytes

CallUnmarshalJSON ==
    /\ op = "new"
    /\ expression \in DecodeTargets
    /\ \/ \E d \in Inputs : Decode(d)
       \/ \E m \in 1..(MaxDocSize - 1), n \in 0..(MaxDocSize - 2) :
            /\ m + n < MaxDocSize
            /\ \E d \in DocsOfSize[m], s \in DocSeqsOfSize[n + 1] :
                 Decode(JArr(<<d>> \o s))

Next == CallValidate \/ CallMarshalJSON \/ CallUnmarshalJSON

Spec == Init /\ [][Next]_vars

(***************************************************************************)
(* Properties.                                                             *)
(***************************************************************************)
Last(s) == s[Len(s)]

\* C1: Validate on a node depends only on the node's own operator,
\* arguments and validator.  With an empty operator it fails with "zero
\* length operator name" and calls no validator, whether or not one is set;
\* otherwise, with a validator set, it calls it once with the node's
\* operator and arguments and returns its result; otherwise it succeeds.
\* It makes no call on a nested node and leaves the node as it was.
C1_ValidateOwnNode ==
    op = "Validate" =>
        /\ expression = before
        /\ Len(trace) = 1
        /\ trace[1].ev = "Validate" /\ trace[1].path = <<>>
        /\ trace[1].err = err
        /\ IF before.Operator = ""
           THEN err = "zero length operator name" /\ trace[1].calls = <<>>
           ELSE IF before.Validator # NilValidator
                THEN /\ err = CallValidator(before.Validator, before.Operator,
                                            before.Arguments)
                     /\ trace[1].calls =
                          <<[validator |-> before.Validator,
                             operator |-> before.Operator,
                             arguments |-> before.Arguments]>>
                ELSE err = NilErr /\ trace[1].calls = <<>>

\* C1's case: a node that passes Validate under a validator while one of
\* its arguments is a nested node with an empty operator.
C1_Witness ==
    /\ op = "Validate"
    /\ err = NilErr
    /\ before.Validator # NilValidator
    /\ \E i \in DOMAIN before.Arguments :
         /\ before.Arguments[i].k = "expr"
         /\ before.Arguments[i].Operator = ""

\* A Go value that is the image of a JSON value; a terminal argument is
\* one that is not an array.
RECURSIVE IsJSONValue(_)
IsJSONValue(x) ==
    CASE x.k \in {"string", "float64", "bool", "nil"} -> TRUE
      [] x.k = "map" -> IsJSONValue(x.m)
      [] x.k = "slice" -> \A n \in DOMAIN x.a : IsJSONValue(x.a[n])
      [] OTHER -> FALSE
IsTerminal(x) == x.k # "slice" /\ IsJSONValue(x)

\* A validly-structured tree whose validators all accept: every node has a
\* non-empty operator and no validator or the accepting one, every argument
\* is a terminal or such a node.
RECURSIVE ValidTree(_)
ValidTree(e) ==
    /\ e.k = "expr"
    /\ e.Operator # ""
    /\ e.Validator \in {NilValidator, "accept"}
    /\ \A n \in DOMAIN e.Arguments :
         IsTerminal(e.Arguments[n]) \/ ValidTree(e.Arguments[n])

\* The operator, argument sequence and nested structure of a tree: the tree
\* with the validators left out.
RECURSIVE Structure(_)
Structure(x) ==
    IF x.k = "expr"
    THEN [k |-> "expr", Operator |-> x.Operator,
          Arguments |-> [n \in DOMAIN x.Arguments |-> Structure(x.Arguments[n])]]
    ELSE x

\* C2: round trip.  Encoding a validly-structured tree under no or
\* accepting validators succeeds, and decoding the bytes (into a fresh node
\* with no or the accepting validator) succeeds and yields the same
\* operator, argument sequence and nested structure; and encoding the tree
\* of a successful decode yields JSON equal to the bytes decoded.
C2_RoundTrip ==
    /\ (op = "MarshalJSON" /\ ValidTree(before)) =>
          /\ err = NilErr
          /\ \A v \in {NilValidator, "accept"} :
               LET decoded == UnmarshalJSON(bytes, Expression("", <<>>, v))
               IN  /\ decoded.err = NilErr
                   /\ Structure(decoded.expression) = Structure(before)
    /\ (op = "UnmarshalJSON" /\ err = NilErr) =>
          LET encoded == MarshalJSON(expression)
          IN  encoded.err = NilErr /\ encoded.bytes = data

\* C2's case: a tree with a nested node, a terminal after it and the
\* accepting validator has been encoded.
C2_Witness ==
    /\ op = "MarshalJSON"
    /\ ValidTree(before)
    /\ before.Validator = "accept"
    /\ bytes # NilBytes
    /\ \E i \in DOMAIN before.Arguments : before.Arguments[i].k = "expr"

\* C2's other case: bytes with a nested array have been decoded.
C2_WitnessDecoded ==
    /\ op = "UnmarshalJSON"
    /\ err = NilErr
    /\ \E i \in DOMAIN expression.Arguments : expression.Arguments[i].k = "expr"

\* The value at `path` in a JSON document: path[1] is the zero-based index
\* among the arguments of the array, the operator not counted, and so on
\* down.
RECURSIVE DocAt(_, _)
DocAt(d, path) ==
    IF path = <<>> THEN d
    ELSE IF d.j = "array" /\ path[1] + 2 <= Len(d.a)
         THEN DocAt(d.a[path[1] + 2], Tail(path))
         ELSE Malformed

\* cause wrapped once per index of path, outermost first.
RECURSIVE ArgErrorChain(_, _)
ArgErrorChain(path, cause) ==
    IF path = <<>> THEN cause
    ELSE "arg " \o ToString(path[1]) \o " error: "
           \o ArgErrorChain(Tail(path), cause)

\* The errors of a node's own check under validator v: the two of the
\* operator check, and those of Validate.
OwnCheckErrors(d, v) ==
    {"expression must have an operator", "zero length operator name"}
      \cup (IF d.j = "array" /\ Len(d.a) > 0
            THEN {"expected a string operator, got "
                    \o GoFormat(jsonUnmarshalValue(d.a[1]))}
            ELSE {})
      \cup (IF v = "arity"
            THEN {"expected no arguments for void", "expected some arguments"}
            ELSE {})

\* C3: a decode of an array that fails at a node (the last event of the
\* call is that node's) returns that node's own error wrapped as "arg i error: " once
\* per level, outermost first, the indices being the path from the root to
\* the node: the zero-based positions among the arguments.  The node at
\* that path in the input is an array, and decoding it alone fails at its
\* root with the cause.  A failure of the root's own check has no prefix.
C3_NestedErrorChain ==
    (op = "UnmarshalJSON" /\ err # NilErr /\ data.j = "array") =>
        LET path == Last(trace).path
            node == DocAt(data, path)
            alone == UnmarshalJSON(node, Expression("", <<>>, before.Validator))
        IN  /\ node.j = "array"
            /\ alone.err \in OwnCheckErrors(node, before.Validator)
            /\ Last(alone.trace).path = <<>>
            /\ err = ArgErrorChain(path, alone.err)
            /\ path = <<>> => err \in OwnCheckErrors(data, before.Validator)

\* C3's case: the failure of TestCustomValidatorUnmarshal two levels down,
\* at argument 1 of argument 0.
C3_Witness ==
    /\ op = "UnmarshalJSON"
    /\ data.j = "array"
    /\ Last(trace).path = <<0, 1>>
    /\ err = "arg 0 error: arg 1 error: expected some arguments"

\* The zero-based index of the first argument json.Marshal fails on.
FirstFailingArgument(arguments) ==
    CHOOSE i \in 0..(Len(arguments) - 1) :
        /\ jsonMarshal(arguments[i + 1]).err # NilErr
        /\ \A n \in 0..(i - 1) : jsonMarshal(arguments[n + 1]).err = NilErr

\* C4: MarshalJSON returns bytes or an error, never both and never a
\* prefix: on failure the bytes are nil.  A failure of the node's own
\* Validate is returned as it is; otherwise the failure is that of the first
\* argument json.Marshal fails on, at zero-based index i, returned as
\* "failed to marshal argument i: " and json.Marshal's error.
C4_EncodeAllOrNothing ==
    op = "MarshalJSON" =>
        /\ expression = before
        /\ (err = NilErr) <=> (bytes # NilBytes)
        /\ err = NilErr => bytes.j = "array"
        /\ err # NilErr =>
             IF Validate(before).err # NilErr
             THEN err = Validate(before).err
             ELSE /\ \E n \in DOMAIN before.Arguments :
                       jsonMarshal(before.Arguments[n]).err # NilErr
                  /\ LET i == FirstFailingArgument(before.Arguments)
                     IN  err = "failed to marshal argument " \o ToString(i)
                                 \o ": "
                                 \o jsonMarshal(before.Arguments[i + 1]).err

\* C4's case: a nested node two levels down fails its own validation,
\* after the root has written its operator and an argument.
C4_Witness ==
    /\ op = "MarshalJSON"
    /\ bytes = NilBytes
    /\ Len(Last(trace).path) = 2
    /\ Last(trace).path[1] > 0
    /\ Last(trace).ev = "Validate"
    /\ Last(trace).err = "zero length operator name"

\* C5: decoding an array fails at the operator check before anything else
\* is done: the call's only event is the start of the root's decoding, so
\* no argument was decoded and no Validate ran.  The empty array fails with
\* "expression must have an operator"; a first element that is no JSON
\* string fails with "expected a string operator, got " and the value (42,
\* true, <nil> for the number, the boolean and null), whatever the
\* arguments are.  Both differ from each other and from "zero length
\* operator name", which an array starting with "" fails with once its
\* arguments are decoded, at Validate and with no validator called.
C5_OperatorCheck ==
    (op = "UnmarshalJSON" /\ data.j = "array") =>
        LET entered == <<[ev |-> "fromParts", path |-> <<>>]>>
            missing == "expression must have an operator"
            empty == "zero length operator name"
            got == "expected a string operator, got "
        IN  /\ data.a = <<>> => (err = missing /\ trace = entered)
            /\ (data.a # <<>> /\ data.a[1].j # "string") =>
                  /\ trace = entered
                  /\ err \notin {NilErr, missing, empty}
                  /\ err = got \o GoFormat(jsonUnmarshalValue(data.a[1]))
                  /\ data.a[1] = JNum(42) => err = got \o "42"
                  /\ data.a[1] = JBool(TRUE) => err = got \o "true"
                  /\ data.a[1] = JNull => err = got \o "<nil>"
            /\ (data.a # <<>> /\ data.a[1] = JStr("")) =>
                  /\ err \notin {NilErr, missing}
                  /\ Last(trace).path = <<>> =>
                        /\ Last(trace).ev = "Validate"
                        /\ Last(trace).calls = <<>>
                        /\ err = empty

\* C5's case: an array whose first element is null and whose argument is
\* an array that is no expression fails at the operator.
C5_Witness ==
    /\ op = "UnmarshalJSON"
    /\ data = JArr(<<JNull, JArr(<<>>)>>)
    /\ before.Validator = "arity"
    /\ err = "expected a string operator, got <nil>"

\* The grammar of doc.go: an array of one element or more whose first is
\* a non-empty string and whose other elements, when arrays, are
\* expressions.
RECURSIVE IsExpressionJSON(_)
IsExpressionJSON(d) ==
    /\ d.j = "array"
    /\ Len(d.a) >= 1
    /\ d.a[1].j = "string" /\ d.a[1].s # ""
    /\ \A n \in 2..Len(d.a) : d.a[n].j = "array" => IsExpressionJSON(d.a[n])

\* The node e is the array d decoded: the operator is the first element,
\* every array argument is a nested node that is that array decoded, every
\* other argument is the Go value of the JSON value at its position.
RECURSIVE Decodes(_, _)
Decodes(e, d) ==
    /\ e.k = "expr"
    /\ e.Operator # ""
    /\ d.a[1] = JStr(e.Operator)
    /\ Len(e.Arguments) = Len(d.a) - 1
    /\ \A n \in DOMAIN e.Arguments :
         IF d.a[n + 1].j = "array"
         THEN Decodes(e.Arguments[n], d.a[n + 1])
         ELSE /\ e.Arguments[n].k \notin {"slice", "expr"}
              /\ e.Arguments[n] = jsonUnmarshalValue(d.a[n + 1])

\* C6: a decode succeeds only on bytes that satisfy the grammar at every
\* depth, and then no argument of any node of the tree is a raw array:
\* every array of the input is a nested node with a non-empty operator and
\* every other argument is kept, unmodified, at its position.
C6_ArraysAreExpressions ==
    op = "UnmarshalJSON" =>
        /\ ~IsExpressionJSON(data) => err # NilErr
        /\ err = NilErr => Decodes(expression, data)

\* C6's case: a decoded tree with a nested node and a terminal after it.
C6_Witness ==
    /\ op = "UnmarshalJSON"
    /\ err = NilErr
    /\ Len(expression.Arguments) = 2
    /\ expression.Arguments[1].k = "expr"
    /\ expression.Arguments[2] = GoFloat(42)

\* C6's other case: bytes whose array argument two levels down is no
\* expression are refused.
C6_WitnessRefused ==
    /\ op = "UnmarshalJSON"
    /\ err # NilErr
    /\ trace # <<>>
    /\ Len(Last(trace).path) = 2
    /\ DocAt(data, Last(trace).path) = JArr(<<>>)

\* The paths of the expressions of an array: the root's, <<>>, and below
\* each array argument, at its zero-based index among the arguments.
RECURSIVE ArrayPaths(_)
ArrayPaths(d) ==
    {<<>>} \cup UNION {{<<n - 2>> \o p : p \in ArrayPaths(d.a[n])} :
                        n \in {m \in 2..Len(d.a) : d.a[m].j = "array"}}

\* The validators of the nodes of a tree.
RECURSIVE ValidatorsOf(_)
ValidatorsOf(e) ==
    {e.Validator} \cup UNION {ValidatorsOf(e.Arguments[n]) :
                                n \in {m \in DOMAIN e.Arguments :
                                          e.Arguments[m].k = "expr"}}

\* C7: UnmarshalJSON leaves the target's Validator as it was, on success
\* and on failure.  Every validator call of the decode is a call of the
\* target's validator, and a Validate of a node with an operator calls it
\* when it is set; after a success every node of the tree carries the
\* target's validator and every expression of the input has had its
\* Validate run, on its own operator.
C7_ValidatorInherited ==
    op = "UnmarshalJSON" =>
        LET V == before.Validator
            validated == {n \in DOMAIN trace : trace[n].ev = "Validate"}
        IN  /\ expression.Validator = V
            /\ \A n \in validated :
                 /\ \A c \in DOMAIN trace[n].calls :
                      trace[n].calls[c].validator = V
                 /\ LET operator == DocAt(data, trace[n].path).a[1].s
                    IN  IF V # NilValidator /\ operator # ""
                        THEN /\ Len(trace[n].calls) = 1
                             /\ trace[n].calls[1].operator = operator
                        ELSE trace[n].calls = <<>>
            /\ err = NilErr =>
                 /\ ValidatorsOf(expression) = {V}
                 /\ {trace[n].path : n \in validated} = ArrayPaths(data)

\* C7's case: a decode under the arity validator of an expression nested
\* two levels down has succeeded.
C7_Witness ==
    /\ op = "UnmarshalJSON"
    /\ err = NilErr
    /\ before.Validator = "arity"
    /\ \E p \in ArrayPaths(data) : Len(p) = 2

\* encoding/json's error for a JSON value of the named kind that is
\* unmarshalled into a []interface{}.
NotAnArray(kind) ==
    "json: cannot unmarshal " \o kind \o " into Go value of type []interface {}"

\* C8 as stated: a top-level string, number, boolean, null or object fails
\* with the not-an-array error, and not with "expression must have an
\* operator".
C8_Original ==
    (op = "UnmarshalJSON"
       /\ data.j \in {"string", "number", "bool", "null", "object"}) =>
        /\ err \in {NotAnArray(kind) :
                      kind \in {"string", "number", "bool", "null", "object"}}
        /\ err # "expression must have an operator"

\* What UnmarshalJSON does at C8's inputs: a top-level string, number,
\* boolean or object fails with encoding/json's not-an-array error, before
\* any decoding starts and with the target as it was, and that error is not
\* "expression must have an operator".  A top-level null leaves the parts
\* nil and fails with "expression must have an operator", as the empty array
\* does; these two are the only inputs whose root fails with it.
C8_NotAnArray ==
    op = "UnmarshalJSON" =>
        LET missing == "expression must have an operator"
        IN  /\ data.j \in {"string", "number", "bool", "object"} =>
                  /\ err = NotAnArray(data.j)
                  /\ err # missing
                  /\ trace = <<>>
                  /\ expression = before
            /\ data.j = "null" =>
                  /\ err = missing
                  /\ trace = <<[ev |-> "fromParts", path |-> <<>>]>>
                  /\ expression = before
            /\ (err = missing /\ Last(trace).path = <<>>) =>
                  data \in {JNull, JArr(<<>>)}

\* C8's case: a top-level null has been given to UnmarshalJSON.
C8_Witness ==
    /\ op = "UnmarshalJSON"
    /\ data = JNull
    /\ err # NilErr

\* p is a proper prefix of q: the node at p is an ancestor of the node at q.
IsAncestor(p, q) == Len(p) < Len(q) /\ SubSeq(q, 1, Len(p)) = p

\* The node at p comes before the node at q, left to right: where the two
\* paths part, p takes the earlier argument.
IsLeftOf(p, q) ==
    \E n \in 1..Len(p) :
        /\ n <= Len(q)
        /\ SubSeq(p, 1, n - 1) = SubSeq(q, 1, n - 1)
        /\ p[n] < q[n]

\* C9: the events of a decode of an array are in depth-first, left-to-right order, a
\* node's Validate coming after its decoding started and after the
\* successful Validate of every array below it; no node is decoded or
\* validated twice.  A failing decode ends with the event of the node that
\* failed: every Validate before it succeeded, no node to the right of the
\* failing node (its later siblings, and those of its ancestors) has an
\* event, and no ancestor has been validated.  A successful decode has
\* validated every array of the input, and the validator, when set, has
\* been called by each.
C9_DecodePostOrder ==
    (op = "UnmarshalJSON" /\ data.j = "array") =>
        LET N == DOMAIN trace
            IsValidate(n) == trace[n].ev = "Validate"
            failing == Last(trace).path
        IN  /\ \A m, n \in N :
                  m < n =>
                    /\ ~IsLeftOf(trace[n].path, trace[m].path)
                    /\ trace[m].path = trace[n].path =>
                          trace[m].ev = "fromParts" /\ IsValidate(n)
                    /\ IsValidate(m) => ~IsAncestor(trace[m].path, trace[n].path)
                    /\ ~IsValidate(n) => ~IsAncestor(trace[n].path, trace[m].path)
            /\ \A n \in N :
                  IsValidate(n) =>
                    /\ \E m \in 1..(n - 1) :
                          trace[m] = [ev |-> "fromParts", path |-> trace[n].path]
                    /\ \A q \in ArrayPaths(data) :
                          IsAncestor(trace[n].path, q) =>
                            \E m \in 1..(n - 1) :
                                /\ IsValidate(m)
                                /\ trace[m].path = q
                                /\ trace[m].err = NilErr
            /\ \A n \in N : trace[n].path \in ArrayPaths(data)
            /\ err # NilErr =>
                  /\ \A n \in 1..(Len(trace) - 1) :
                        /\ IsValidate(n) => trace[n].err = NilErr
                        /\ ~IsLeftOf(failing, trace[n].path)
                        /\ IsValidate(n) => ~IsAncestor(trace[n].path, failing)
                  /\ IsValidate(Len(trace)) => Last(trace).err # NilErr
            /\ err = NilErr =>
                  /\ {trace[n].path : n \in {m \in N : IsValidate(m)}}
                       = ArrayPaths(data)
                  /\ \A n \in N :
                        IsValidate(n) =>
                          /\ trace[n].err = NilErr
                          /\ before.Validator # NilValidator =>
                                /\ Len(trace[n].calls) = 1
                                /\ trace[n].calls[1].validator = before.Validator

\* C9's case: a decode has failed at a nested node that has an array as a
\* later sibling, after an earlier sibling array was decoded and validated.
C9_Witness ==
    /\ op = "UnmarshalJSON"
    /\ err # NilErr
    /\ trace # <<>>
    /\ LET failing == Last(trace).path
       IN  /\ failing # <<>>
           /\ \E q \in ArrayPaths(data) : IsLeftOf(failing, q)
           /\ \E n \in DOMAIN trace :
                 /\ trace[n].ev = "Validate"
                 /\ IsLeftOf(trace[n].path, failing)

\* C9's other case: a decode of nested arrays under a validator has
\* succeeded.
C9_WitnessDecoded ==
    /\ op = "UnmarshalJSON"
    /\ err = NilErr
    /\ before.Validator # NilValidator
    /\ \E p, q \in ArrayPaths(data) : IsAncestor(p, q) /\ p # <<>>

\* The argument at `path` below node e, e itself at <<>>.
RECURSIVE NodeAt(_, _)
NodeAt(e, path) ==
    IF path = <<>> THEN e ELSE NodeAt(e.Arguments[path[1] + 1], Tail(path))

\* The paths of the arguments below node e, terminals and nodes alike.
RECURSIVE ArgumentPaths(_)
ArgumentPaths(e) ==
    UNION {{<<n - 1>>} \cup
             (IF e.Arguments[n].k = "expr"
              THEN {<<n - 1>> \o p : p \in ArgumentPaths(e.Arguments[n])}
              ELSE {}) : n \in DOMAIN e.Arguments}

\* The paths of the nodes of the tree of e.
ExpressionPaths(e) ==
    {<<>>} \cup {p \in ArgumentPaths(e) : NodeAt(e, p).k = "expr"}

\* cause as MarshalJSON returns it from the node at path, outermost first.
RECURSIVE MarshalErrorChain(_, _)
MarshalErrorChain(path, cause) ==
    IF path = <<>> THEN cause
    ELSE "failed to marshal argument " \o ToString(path[1]) \o ": "
           \o "json: error calling MarshalJSON for type *jiffy.Expression: "
           \o MarshalErrorChain(Tail(path), cause)

\* C10: the events of MarshalJSON are in depth-first, left-to-right order,
\* a node's Validate first, before json.Marshal is called on any of its
\* arguments, and after the successful Validate of every ancestor and of
\* every node to its left.  Each Validate is that of the node at its path,
\* with the node's own validator and none when it has none.  An invalid
\* root leaves its Validate as the only event.  A failing call ends at the
\* event that failed: every Validate before it succeeded and nothing to
\* the right of it is validated or encoded.  With an invalid node in the
\* tree the call fails, at that node or before it in pre-order; a failing
\* Validate is the first invalid node's, and its error is returned,
\* wrapped once per level.
C10_EncodePreOrder ==
    op = "MarshalJSON" =>
        LET N == DOMAIN trace
            IsValidate(n) == trace[n].ev = "Validate"
            failing == Last(trace).path
            Invalid(q) == Validate(NodeAt(before, q)).err # NilErr
            Validated(q, n) ==
                \E m \in 1..(n - 1) :
                    /\ IsValidate(m) /\ trace[m].path = q
                    /\ trace[m].err = NilErr
        IN  /\ trace # <<>>
            /\ trace[1] = ValidateEvent(<<>>, before)
            /\ Invalid(<<>>) =>
                  /\ trace = <<ValidateEvent(<<>>, before)>>
                  /\ err = Validate(before).err
            /\ \A m, n \in N :
                  m < n =>
                    /\ ~IsLeftOf(trace[n].path, trace[m].path)
                    /\ ~IsAncestor(trace[n].path, trace[m].path)
                    /\ trace[m].path = trace[n].path =>
                          /\ n = m + 1
                          /\ trace[m].ev = "Marshal" /\ IsValidate(n)
            /\ \A n \in N :
                  IF IsValidate(n)
                  THEN /\ trace[n].path \in ExpressionPaths(before)
                       /\ trace[n]
                            = ValidateEvent(trace[n].path,
                                            NodeAt(before, trace[n].path))
                       /\ \A c \in DOMAIN trace[n].calls :
                             trace[n].calls[c].validator
                               = NodeAt(before, trace[n].path).Validator
                       /\ NodeAt(before, trace[n].path).Validator = NilValidator
                             => trace[n].calls = <<>>
                       /\ n > 1 =>
                             trace[n - 1]
                               = [ev |-> "Marshal", path |-> trace[n].path]
                       /\ \A q \in ExpressionPaths(before) :
                             (IsAncestor(q, trace[n].path)
                                \/ IsLeftOf(q, trace[n].path))
                               => Validated(q, n)
                  ELSE /\ trace[n].path \in ArgumentPaths(before)
                       /\ Validated(SubSeq(trace[n].path, 1,
                                           Len(trace[n].path) - 1), n)
            /\ err # NilErr =>
                  /\ bytes = NilBytes
                  /\ \A n \in 1..(Len(trace) - 1) :
                        /\ IsValidate(n) => trace[n].err = NilErr
                        /\ ~IsLeftOf(failing, trace[n].path)
                  /\ IF IsValidate(Len(trace))
                     THEN /\ Invalid(failing)
                          /\ \A q \in ExpressionPaths(before) :
                                (Invalid(q) /\ q # failing) =>
                                   IsAncestor(failing, q) \/ IsLeftOf(failing, q)
                          /\ err = MarshalErrorChain(
                                      failing,
                                      Validate(NodeAt(before, failing)).err)
                     ELSE NodeAt(before, failing).k = "chan"
            /\ \A q \in ExpressionPaths(before) :
                  Invalid(q) =>
                    /\ err # NilErr
                    /\ failing = q \/ IsAncestor(failing, q)
                         \/ IsLeftOf(failing, q)
            /\ err = NilErr =>
                  /\ {trace[n].path : n \in {m \in N : IsValidate(m)}}
                       = ExpressionPaths(before)
                  /\ {trace[n].path : n \in {m \in N : ~IsValidate(m)}}
                       = ArgumentPaths(before)

\* C10's case: MarshalJSON has failed at an invalid grandchild of the
\* root, under valid ancestors; the grandchild and its parent each have a
\* node as a later sibling, and the grandchild's validator is not the
\* root's.
C10_Witness ==
    /\ op = "MarshalJSON"
    /\ err # NilErr
    /\ Last(trace).ev = "Validate"
    /\ LET failing == Last(trace).path
       IN  /\ Len(failing) = 2
           /\ \E q \in ExpressionPaths(before) :
                 Len(q) = 2 /\ IsLeftOf(failing, q)
           /\ \E q \in ExpressionPaths(before) :
                 Len(q) = 1 /\ IsLeftOf(failing, q)
           /\ NodeAt(before, failing).Validator # before.Validator

\* C10's other case: MarshalJSON has failed at an invalid root that holds
\* a node.
C10_WitnessRoot ==
    /\ op = "MarshalJSON"
    /\ err # NilErr
    /\ Len(trace) = 1
    /\ \E q \in ExpressionPaths(before) : q # <<>>

\* The decode has failed at the target's own Validate: the last event of
\* the call is the Validate of the root.
FailedAtOwnValidate ==
    /\ err # NilErr
    /\ trace # <<>>
    /\ Last(trace).ev = "Validate"
    /\ Last(trace).path = <<>>

\* C11: UnmarshalJSON never touches the target's Validator.  A decode that
\* fails before the target's own Validate (malformed bytes, not an array,
\* a missing or non-string operator, a failure inside a nested argument)
\* leaves the target's Operator and Arguments as they were.  A decode that
\* fails at the target's own Validate, with the empty operator's error or
\* the validator's, leaves both fields holding the rejected values: the
\* first element as Operator, and as Arguments every element after it, an
\* array as the node it decodes to and any other value as its Go value.
\* At no outcome is one field the new value and the other the old one.
C11_DecodeFrame ==
    op = "UnmarshalJSON" =>
        LET attempted ==
                /\ expression.Operator = data.a[1].s
                /\ Len(expression.Arguments) = Len(data.a) - 1
                /\ \A n \in DOMAIN expression.Arguments :
                      IF data.a[n + 1].j = "array"
                      THEN /\ Decodes(expression.Arguments[n], data.a[n + 1])
                           /\ expression.Arguments[n].Validator
                                = before.Validator
                      ELSE expression.Arguments[n]
                             = jsonUnmarshalValue(data.a[n + 1])
        IN  /\ expression.Validator = before.Validator
            /\ expression.k = "expr"
            /\ err # NilErr =>
                  IF FailedAtOwnValidate
                  THEN /\ attempted
                       /\ err = Last(trace).err
                       /\ err = Validate(expression).err
                       /\ err \in {"zero length operator name",
                                    "expected no arguments for void",
                                    "expected some arguments"}
                  ELSE /\ expression = before
                       /\ err \notin {"zero length operator name",
                                       "expected no arguments for void",
                                       "expected some arguments"}
            /\ err = NilErr => attempted
            /\ \/ /\ expression.Operator = before.Operator
                  /\ expression.Arguments = before.Arguments
               \/ attempted /\ (err = NilErr \/ FailedAtOwnValidate)

\* C11's case: a decode into a node that held an expression has failed at
\* the node's own Validate, the validator rejecting it after a nested
\* argument was decoded, and the node holds the rejected operator and
\* arguments, not those it held.
C11_Witness ==
    /\ op = "UnmarshalJSON"
    /\ FailedAtOwnValidate
    /\ before.Operator = "or"
    /\ before.Arguments = <<GoFloat(42)>>
    /\ err = "expected no arguments for void"
    /\ expression.Operator = "void"
    /\ \E n \in DOMAIN expression.Arguments :
          expression.Arguments[n].k = "expr"

\* C11's other case: a decode into a node that held an expression has
\* failed inside a nested argument, after a non-empty operator was read.
C11_WitnessUntouched ==
    /\ op = "UnmarshalJSON"
    /\ err # NilErr
    /\ trace # <<>>
    /\ Last(trace).path # <<>>
    /\ data.a[1].j = "string"
    /\ data.a[1].s \notin {"", before.Operator}
    /\ before.Arguments # <<>>
    /\ expression = before

====
